---- MODULE Spec2Model ----
(***************************************************************************)
(* dvkcli: the conversation memory subsystem (internal/memory), the        *)
(* embedding call of the Ollama client and the chat UI's use of both.      *)
(*                                                                         *)
(* Specifications:                                                         *)
(*   SpecCodec   serializeFloat32 / deserializeFloat32 on bounded vectors  *)
(*   SpecCosine  cosineSimilarity on bounded pairs of vectors              *)
(*   SpecSearch  Store.SaveMessage and Store.Search                        *)
(*   Spec        the Store's conversation and message operations           *)
(*   SpecRead    the Store's writes followed by its reads                  *)
(*   SpecUI      the Bubbletea model: key presses, background commands     *)
(*   SpecChat    the keys and commands that touch the streaming flag       *)
(*   SpecQuit    a chat with memory enabled that the user may quit         *)
(*   LiveChat    the chat commands under fair scheduling                   *)
(***************************************************************************)
EXTENDS Integers, Sequences, FiniteSets, TLC

VARIABLES
    pure,           \* call record of the pure function under check
    conversations,  \* table conversations: set of rows
    messages,       \* table messages: sequence of rows in rowid order
    now,            \* the wall clock read by time.Now()
    call,           \* the Store call in progress or just returned
    transcript,     \* Model.messages
    conversationID, \* Model.conversationID
    streaming,      \* Model.streaming
    memoryCount,    \* Model.memoryCount
    storeOpen,      \* Model.store != nil
    chats,          \* running streamResponse commands
    saves,          \* running saveToMemory commands
    searches,       \* running searchMemory commands
    nkeys,          \* key presses handled so far
    nuuid,          \* conversation ids drawn from uuid.New() so far
    ncmd,           \* commands started so far
    proc            \* the process: p.Run() running, returned, or main ended

uiVars == <<transcript, conversationID, streaming, memoryCount, storeOpen,
            chats, saves, searches, nkeys, nuuid, ncmd, proc>>
storeVars == <<conversations, messages, now, call, uiVars>>
vars == <<pure, conversations, messages, now, call, uiVars>>

(***************************************************************************)
(* 32-bit floats.  A float32 is its IEEE-754 fields: sign (1 bit),         *)
(* exponent (8 bits), mantissa (23 bits).  A uint32 is kept as two 16-bit  *)
(* halves, so that no value exceeds the checker's integer range.           *)
(***************************************************************************)
F32(s, e, m) == [s |-> s, e |-> e, m |-> m]

Float32bits(f) ==
    [hi |-> f.s * 32768 + f.e * 128 + (f.m \div 65536), lo |-> f.m % 65536]

Float32frombits(u) ==
    [s |-> u.hi \div 32768,
     e |-> (u.hi \div 128) % 256,
     m |-> (u.hi % 128) * 65536 + u.lo]

\* binary.BigEndian.PutUint32: the byte order a slip would use
PutUint32BE(u) == <<u.hi \div 256, u.hi % 256, u.lo \div 256, u.lo % 256>>

\* binary.LittleEndian.PutUint32
PutUint32(u) == <<u.lo % 256, u.lo \div 256, u.hi % 256, u.hi \div 256>>

\* binary.LittleEndian.Uint32 of the first four bytes of b
Uint32(b) == [hi |-> b[4] * 256 + b[3], lo |-> b[2] * 256 + b[1]]

RECURSIVE serializeFloat32(_)
serializeFloat32(data) ==
    IF data = <<>> THEN <<>>
    ELSE PutUint32(Float32bits(Head(data))) \o serializeFloat32(Tail(data))

deserializeFloat32(data) ==
    [i \in 1..(Len(data) \div 4) |->
        Float32frombits(Uint32(SubSeq(data, 4 * (i - 1) + 1, Len(data))))]

\* Sample float32 values: +0, -0, 1, -1, 2, 3, 4, +Inf, -Inf, a quiet NaN,
\* a signalling NaN with a payload, the smallest subnormal.
FZero    == F32(0, 0, 0)
FNegZero == F32(1, 0, 0)
FOne     == F32(0, 127, 0)
FNegOne  == F32(1, 127, 0)
FTwo     == F32(0, 128, 0)
FThree   == F32(0, 128, 4194304)
FFour    == F32(0, 129, 0)
FInf     == F32(0, 255, 0)
FNegInf  == F32(1, 255, 0)
FNaN     == F32(0, 255, 4194304)
FSigNaN  == F32(1, 255, 65537)
FSubnorm == F32(0, 0, 1)

\* Bound: the longest vector drawn as an input of the pure functions
MaxLen == 2

RECURSIVE SeqsUpTo(_, _)
SeqsUpTo(S, n) ==
    IF n = 0 THEN {<<>>}
    ELSE LET shorter == SeqsUpTo(S, n - 1)
         IN  shorter \cup {Append(q, x) : q \in {r \in shorter : Len(r) = n - 1}, x \in S}

CodecFloats ==
    {FZero, FNegZero, FOne, FNegOne, FInf, FNegInf, FNaN, FSigNaN, FSubnorm}

NoCall == [op |-> "none"]
NoPure == [fn |-> "none"]

\* the Model of a process that runs no UI
NoUI ==
    /\ transcript = <<>>
    /\ conversationID = 0
    /\ streaming = FALSE
    /\ memoryCount = 0
    /\ storeOpen = TRUE
    /\ chats = {} /\ saves = {} /\ searches = {}
    /\ nkeys = 0 /\ nuuid = 0 /\ ncmd = 0
    /\ proc = "running"

EmptyStore ==
    /\ conversations = {}
    /\ messages = <<>>
    /\ now = 0
    /\ call = NoCall

StoreIdle == EmptyStore /\ NoUI

(***************************************************************************)
(* SpecCodec: encode a vector, then decode the bytes.                      *)
(***************************************************************************)
InitCodec ==
    /\ pure \in {[fn |-> "codec", pc |-> "start", v |-> v, bytes |-> <<>>, out |-> <<>>] :
                    v \in SeqsUpTo(CodecFloats, MaxLen)}
    /\ StoreIdle

Encode ==
    /\ pure.fn = "codec" /\ pure.pc = "start"
    /\ pure' = [pure EXCEPT !.pc = "encoded", !.bytes = serializeFloat32(pure.v)]
    /\ UNCHANGED storeVars

Decode ==
    /\ pure.fn = "codec" /\ pure.pc = "encoded"
    /\ pure' = [pure EXCEPT !.pc = "decoded", !.out = deserializeFloat32(pure.bytes)]
    /\ UNCHANGED storeVars

NextCodec == Encode \/ Decode

SpecCodec == InitCodec /\ [][NextCodec]_vars

\* C1: decode(encode(v)) reproduces v bit for bit, and the encoding has
\* exactly four bytes per element (none for the empty vector).
C1_RoundTrip ==
    (pure.fn = "codec") =>
        /\ pure.pc \in {"encoded", "decoded"} =>
              /\ Len(pure.bytes) = 4 * Len(pure.v)
              /\ \A i \in 1..Len(pure.bytes) : pure.bytes[i] \in 0..255
        /\ pure.pc = "decoded" =>
              /\ Len(pure.out) = Len(pure.v)
              /\ \A i \in 1..Len(pure.v) :
                    /\ pure.out[i].s = pure.v[i].s
                    /\ pure.out[i].e = pure.v[i].e
                    /\ pure.out[i].m = pure.v[i].m

\* a decoded two-element vector holding a NaN with a payload and a negative value
C1_Witness ==
    /\ pure.fn = "codec" /\ pure.pc = "decoded"
    /\ pure.v = <<FSigNaN, FNegOne>>
    /\ Len(pure.bytes) = 8

(***************************************************************************)
(* 64-bit floats, as far as cosineSimilarity needs them: a value is NaN,   *)
(* an infinity (n = 1 or -1) or the finite rational n / d in lowest terms. *)
(* IEEE-754 equality holds of +0 and -0, so both are the finite 0.  The    *)
(* inputs are chosen so that every product, sum and square root is exact   *)
(* in float64 (integer elements, norms that are perfect squares); the      *)
(* final quotient is then the correctly rounded n / d, which is one-to-one *)
(* and order-preserving on these small rationals.                          *)
(***************************************************************************)
Fin(n, d) == [k |-> "fin", n |-> n, d |-> d]
NaN64     == [k |-> "nan", n |-> 0, d |-> 1]
Inf64(sg) == [k |-> "inf", n |-> sg, d |-> 1]
Zero64    == Fin(0, 1)

Abs(x) == IF x < 0 THEN -x ELSE x
Sgn(x) == IF x < 0 THEN -1 ELSE IF x > 0 THEN 1 ELSE 0

RECURSIVE Gcd(_, _)
Gcd(x, y) == IF y = 0 THEN x ELSE Gcd(y, x % y)

RECURSIVE Pow2(_)
Pow2(n) == IF n = 0 THEN 1 ELSE 2 * Pow2(n - 1)

\* float64(x) of a float32 x: exact.  Finite non-zero inputs are integers.
ToFloat64(f) ==
    IF f.e = 255 THEN (IF f.m = 0 THEN Inf64(1 - 2 * f.s) ELSE NaN64)
    ELSE IF f.e = 0 /\ f.m = 0 THEN Zero64
    ELSE IF f.e >= 150
         THEN Fin((1 - 2 * f.s) * (8388608 + f.m) * Pow2(f.e - 150), 1)
         ELSE Fin((1 - 2 * f.s) * ((8388608 + f.m) \div Pow2(150 - f.e)), 1)

Mul64(x, y) ==
    IF x.k = "nan" \/ y.k = "nan" THEN NaN64
    ELSE IF x.k = "inf" \/ y.k = "inf"
         THEN (IF x.n = 0 \/ y.n = 0 THEN NaN64 ELSE Inf64(Sgn(x.n) * Sgn(y.n)))
    ELSE Fin(x.n * y.n, 1)

Add64(x, y) ==
    IF x.k = "nan" \/ y.k = "nan" THEN NaN64
    ELSE IF x.k = "inf" /\ y.k = "inf" THEN (IF x.n = y.n THEN x ELSE NaN64)
    ELSE IF x.k = "inf" THEN x
    ELSE IF y.k = "inf" THEN y
    ELSE Fin(x.n + y.n, 1)

\* math.Sqrt; a finite argument is a perfect square (see above)
Sqrt64(x) ==
    IF x.k = "nan" THEN NaN64
    ELSE IF x.k = "inf" THEN (IF x.n > 0 THEN x ELSE NaN64)
    ELSE IF x.n < 0 THEN NaN64
    ELSE Fin(CHOOSE r \in 0..x.n : r * r = x.n, 1)

\* x / y for integer-valued finite x and y
Div64(x, y) ==
    IF x.k = "nan" \/ y.k = "nan" THEN NaN64
    ELSE IF x.k = "inf" THEN (IF y.k = "inf" THEN NaN64
                              ELSE Inf64(IF y.n < 0 THEN -x.n ELSE x.n))
    ELSE IF y.k = "inf" THEN Zero64
    ELSE IF y.n = 0 THEN (IF x.n = 0 THEN NaN64 ELSE Inf64(Sgn(x.n)))
    ELSE LET g == Gcd(Abs(x.n), Abs(y.n))
         IN  Fin(Sgn(y.n) * (x.n \div g), Abs(y.n) \div g)

\* x == 0 and x > y on float64: false whenever a NaN is compared
IsZero64(x) == x.k = "fin" /\ x.n = 0

Gt64(x, y) ==
    IF x.k = "nan" \/ y.k = "nan" THEN FALSE
    ELSE IF x.k = "inf" THEN (x.n > 0 /\ ~(y.k = "inf" /\ y.n > 0))
    ELSE IF y.k = "inf" THEN y.n < 0
    ELSE x.n * y.d > y.n * x.d

\* the loop of cosineSimilarity after i elements: dotProduct, normA, normB
RECURSIVE cosineLoop(_, _, _)
cosineLoop(a, b, i) ==
    IF i = 0 THEN [dotProduct |-> Zero64, normA |-> Zero64, normB |-> Zero64]
    ELSE LET acc == cosineLoop(a, b, i - 1)
             x == ToFloat64(a[i])
             y == ToFloat64(b[i])
         IN  [dotProduct |-> Add64(acc.dotProduct, Mul64(x, y)),
              normA |-> Add64(acc.normA, Mul64(x, x)),
              normB |-> Add64(acc.normB, Mul64(y, y))]

\* cosineSimilarity without the test for a zero norm
cosineSimilarityNoZeroTest(a, b) ==
    IF Len(a) # Len(b) THEN Zero64
    ELSE LET acc == cosineLoop(a, b, Len(a))
         IN  Div64(acc.dotProduct, Mul64(Sqrt64(acc.normA), Sqrt64(acc.normB)))

\* cosineSimilarity dividing by the norm of a alone
cosineSimilarityOneNorm(a, b) ==
    IF Len(a) # Len(b) THEN Zero64
    ELSE LET acc == cosineLoop(a, b, Len(a))
         IN  IF IsZero64(acc.normA) \/ IsZero64(acc.normB) THEN Zero64
             ELSE Div64(acc.dotProduct, Mul64(Sqrt64(acc.normA), Sqrt64(acc.normA)))

cosineSimilarity(a, b) ==
    IF Len(a) # Len(b) THEN Zero64
    ELSE LET acc == cosineLoop(a, b, Len(a))
         IN  IF IsZero64(acc.normA) \/ IsZero64(acc.normB) THEN Zero64
             ELSE Div64(acc.dotProduct, Mul64(Sqrt64(acc.normA), Sqrt64(acc.normB)))

IsFinite32(f) == f.e # 255
IsZero32(f) == f.e = 0 /\ f.m = 0
AllFinite(v) == \A i \in 1..Len(v) : IsFinite32(v[i])
ZeroMagnitude(v) == \A i \in 1..Len(v) : IsZero32(v[i])

\* integer value of a finite sample element, and the exact squared norm
IntOf(f) == ToFloat64(f).n
RECURSIVE NormSq(_)
NormSq(v) == IF v = <<>> THEN 0 ELSE IntOf(Head(v)) * IntOf(Head(v)) + NormSq(Tail(v))
RECURSIVE Dot(_, _)
Dot(a, b) == IF a = <<>> THEN 0 ELSE IntOf(Head(a)) * IntOf(Head(b)) + Dot(Tail(a), Tail(b))
IsSquare(n) == \E r \in 0..n : r * r = n

\* vectors on which float64 arithmetic is exact
ExactVector(v) == AllFinite(v) => IsSquare(NormSq(v))

CosineFloats == {FZero, FNegZero, FOne, FNegOne, FThree, FFour, FNaN, FInf}
CosineVectors == {v \in SeqsUpTo(CosineFloats, MaxLen) : ExactVector(v)}

(***************************************************************************)
(* SpecCosine: one call of cosineSimilarity.                               *)
(***************************************************************************)
InitCosine ==
    /\ pure \in {[fn |-> "cosine", pc |-> "start", a |-> a, b |-> b, ret |-> Zero64] :
                    a \in CosineVectors, b \in CosineVectors}
    /\ StoreIdle

CallCosine ==
    /\ pure.fn = "cosine" /\ pure.pc = "start"
    /\ pure' = [pure EXCEPT !.pc = "done", !.ret = cosineSimilarity(pure.a, pure.b)]
    /\ UNCHANGED storeVars

NextCosine == CallCosine

SpecCosine == InitCosine /\ [][NextCosine]_vars

\* C6: cosineSimilarity returns exactly 0 for vectors of different lengths
\* and whenever either vector has zero magnitude (all elements zero, or
\* empty); otherwise it returns dot(a,b) / (|a| * |b|), which is NaN as soon
\* as an element is NaN or infinite.
C6_Cosine ==
    (pure.fn = "cosine" /\ pure.pc = "done") =>
        LET a == pure.a
            b == pure.b
            r == pure.ret
        IN  IF Len(a) # Len(b) \/ ZeroMagnitude(a) \/ ZeroMagnitude(b)
            THEN r = Zero64
            ELSE IF AllFinite(a) /\ AllFinite(b)
                 THEN LET na == CHOOSE x \in 0..NormSq(a) : x * x = NormSq(a)
                          nb == CHOOSE x \in 0..NormSq(b) : x * x = NormSq(b)
                      IN  /\ r.k = "fin" /\ r.d > 0
                          /\ r.n * (na * nb) = Dot(a, b) * r.d
                          /\ Gcd(Abs(r.n), r.d) = 1
                 ELSE r = NaN64

\* the degenerate cases happen: a zero vector against a non-zero one
C6_Witness ==
    /\ pure.fn = "cosine" /\ pure.pc = "done"
    /\ pure.a = <<FZero, FNegZero>> /\ pure.b = <<FOne, FInf>>
    /\ pure.ret = Zero64

(***************************************************************************)
(* The Store: two SQLite tables behind database/sql.                       *)
(*   conversations(id PRIMARY KEY, title, created_at, updated_at)          *)
(*   messages(id PRIMARY KEY, conversation_id NOT NULL, role, content,     *)
(*            embedding BLOB, created_at,                                  *)
(*            FOREIGN KEY (conversation_id) REFERENCES conversations(id))  *)
(* A Go slice is nil or a sequence; a BLOB column is NULL or a byte        *)
(* sequence.  A nil []byte argument is bound as NULL.                      *)
(***************************************************************************)
NilSlice == [isnil |-> TRUE, elems |-> <<>>]
Slice(v) == [isnil |-> FALSE, elems |-> v]
NullBlob == [null |-> TRUE, bytes |-> <<>>]
Blob(b)  == [null |-> FALSE, bytes |-> b]

ConvRow(id, title, created, updated) ==
    [id |-> id, title |-> title, created_at |-> created, updated_at |-> updated]

ConvIds == 1..2
Titles == {"t1", "t2"}

\* Bounds: rows of table messages, and the last clock value, in Spec
MaxRows == 2
MaxTime == 1

\* NewStore opens the connection and creates the schema; it never issues
\* PRAGMA foreign_keys = ON, and SQLite leaves foreign keys unenforced
\* on a connection until that pragma is set.
ForeignKeys == FALSE

ConvExists(convs, id) == \E c \in convs : c.id = id
MsgExists(msgs, id) == \E i \in 1..Len(msgs) : msgs[i].id = id

Snapshot == [conversations |-> conversations, messages |-> messages]

\* INSERT OR REPLACE INTO conversations: what a careless upsert would do
InsertOrReplaceConversation(convs, id, title, t, ioErr) ==
    IF ioErr THEN [err |-> TRUE, rows |-> convs]
    ELSE [err |-> FALSE,
          rows |-> {c \in convs : c.id # id} \cup {ConvRow(id, title, t, t)}]

\* INSERT INTO conversations (id, title, created_at, updated_at): fails on
\* an I/O error and on a duplicate primary key
InsertConversation(convs, id, title, t, ioErr) ==
    IF ioErr \/ ConvExists(convs, id) THEN [err |-> TRUE, rows |-> convs]
    ELSE [err |-> FALSE, rows |-> convs \cup {ConvRow(id, title, t, t)}]

\* Store.CreateConversation
CreateConversation(id, title, ioErr) ==
    /\ call = NoCall
    /\ LET ins == InsertConversation(conversations, id, title, now, ioErr)
       IN  /\ conversations' = ins.rows
           /\ call' = [op |-> "CreateConversation", id |-> id, title |-> title,
                       err |-> ins.err, ioErr |-> ioErr, at |-> now, pre |-> Snapshot]
    /\ UNCHANGED <<messages, now, pure, uiVars>>

\* the blob always built from the slice, nil or not
EmbeddingBlobAlways(embedding) == Blob(serializeFloat32(embedding.elems))

\* the embedding argument of the INSERT: var embeddingBlob []byte stays nil
\* unless len(msg.Embedding) > 0
EmbeddingBlob(embedding) ==
    IF Len(embedding.elems) > 0 THEN Blob(serializeFloat32(embedding.elems))
    ELSE NullBlob

\* INSERT INTO messages with the foreign key enforced
InsertMessageFK(msgs, convs, row, ioErr) ==
    IF ioErr \/ MsgExists(msgs, row.id) \/ ~ConvExists(convs, row.conversation_id)
    THEN [err |-> TRUE, rows |-> msgs]
    ELSE [err |-> FALSE, rows |-> Append(msgs, row)]

\* INSERT INTO messages: fails on an I/O error, on a duplicate primary key
\* and, were foreign keys enforced, on a missing conversation
InsertMessage(msgs, convs, row, ioErr) ==
    IF \/ ioErr
       \/ MsgExists(msgs, row.id)
       \/ (ForeignKeys /\ ~ConvExists(convs, row.conversation_id))
    THEN [err |-> TRUE, rows |-> msgs]
    ELSE [err |-> FALSE, rows |-> Append(msgs, row)]

\* UPDATE conversations SET updated_at = ?, the WHERE clause forgotten
UpdateEveryConversationTimestamp(convs, id, t, ioErr) ==
    IF ioErr THEN [err |-> TRUE, rows |-> convs]
    ELSE [err |-> FALSE, rows |-> {[c EXCEPT !.updated_at = t] : c \in convs}]

\* UPDATE conversations SET updated_at = ? WHERE id = ?: no row matching is
\* no error
UpdateConversationTimestamp(convs, id, t, ioErr) ==
    IF ioErr THEN [err |-> TRUE, rows |-> convs]
    ELSE [err |-> FALSE,
          rows |-> {IF c.id = id THEN [c EXCEPT !.updated_at = t] ELSE c : c \in convs}]

MessageRow(msg) ==
    [id |-> msg.ID, conversation_id |-> msg.ConversationID, role |-> msg.Role,
     content |-> msg.Content, embedding |-> EmbeddingBlob(msg.Embedding),
     created_at |-> msg.CreatedAt]

\* the tables and the error after Store.SaveMessage(msg)
SaveMessageResult(convs, msgs, msg, t, ioInsert, ioUpdate) ==
    LET ins == InsertMessage(msgs, convs, MessageRow(msg), ioInsert)
        upd == UpdateConversationTimestamp(convs, msg.ConversationID, t, ioUpdate)
    IN  IF ins.err THEN [err |-> TRUE, conversations |-> convs, messages |-> msgs]
        ELSE [err |-> upd.err, conversations |-> upd.rows, messages |-> ins.rows]

\* Store.SaveMessage
SaveMessage(msg, ioInsert, ioUpdate) ==
    /\ call = NoCall
    /\ LET r == SaveMessageResult(conversations, messages, msg, now, ioInsert, ioUpdate)
       IN  /\ conversations' = r.conversations
           /\ messages' = r.messages
           /\ call' = [op |-> "SaveMessage", msg |-> msg, err |-> r.err,
                       ioInsert |-> ioInsert, ioUpdate |-> ioUpdate,
                       at |-> now, pre |-> Snapshot]
    /\ UNCHANGED <<now, pure, uiVars>>

\* the caller reads the result of the call
Return ==
    /\ call # NoCall
    /\ call' = NoCall
    /\ UNCHANGED <<conversations, messages, now, pure, uiVars>>

\* time passes
Tick ==
    /\ call = NoCall
    /\ now < MaxTime
    /\ now' = now + 1
    /\ UNCHANGED <<conversations, messages, call, pure, uiVars>>

Msg(id, conv, role, content, embedding, created) ==
    [ID |-> id, ConversationID |-> conv, Role |-> role, Content |-> content,
     Embedding |-> embedding, CreatedAt |-> created]

(***************************************************************************)
(* Store.Search                                                            *)
(***************************************************************************)
\* WHERE embedding IS NOT NULL, rows in rowid order
HasEmbedding(row) == ~row.embedding.null
SelectEmbedded(msgs) == SelectSeq(msgs, HasEmbedding)

\* rows.Scan fails on no row: every column was written by SaveMessage from
\* the Go type it is scanned into
ScanError(row) == FALSE

ScannedMessage(row) ==
    Msg(row.id, row.conversation_id, row.role, row.content,
        Slice(deserializeFloat32(row.embedding.bytes)), row.created_at)

\* the scan loop: one SearchResult per row with a non-empty blob
RECURSIVE ScoreRows(_, _)
ScoreRows(rows, queryEmbedding) ==
    IF rows = <<>> THEN <<>>
    ELSE LET row == Head(rows)
             rest == ScoreRows(Tail(rows), queryEmbedding)
         IN  IF ScanError(row) THEN rest
             ELSE IF Len(row.embedding.bytes) > 0
                  THEN <<[Message |-> ScannedMessage(row),
                          Similarity |-> cosineSimilarity(queryEmbedding.elems,
                                             deserializeFloat32(row.embedding.bytes))]>>
                       \o rest
                  ELSE rest

Swap(r, i, j) == [r EXCEPT ![i] = r[j], ![j] = r[i]]

\* the inner loop with >= for >: equal neighbours are swapped too
RECURSIVE SortInnerGe(_, _, _)
SortInnerGe(r, i, j) ==
    IF j > Len(r) THEN r
    ELSE SortInnerGe(IF \/ Gt64(r[j].Similarity, r[i].Similarity)
                        \/ (r[j].Similarity.k # "nan" /\ r[j].Similarity = r[i].Similarity)
                     THEN Swap(r, i, j) ELSE r,
                     i, j + 1)

\* for j := i + 1; j < len(results); j++ { if results[j] > results[i] { swap } }
RECURSIVE SortInner(_, _, _)
SortInner(r, i, j) ==
    IF j > Len(r) THEN r
    ELSE SortInner(IF Gt64(r[j].Similarity, r[i].Similarity) THEN Swap(r, i, j) ELSE r,
                   i, j + 1)

\* for i := 0; i < len(results)-1; i++ { ... }
RECURSIVE SortOuter(_, _)
SortOuter(r, i) ==
    IF i >= Len(r) THEN r ELSE SortOuter(SortInner(r, i, i + 1), i + 1)

\* the ranking left unsorted
SortResultsSkipped(results) == results

SortResults(results) == SortOuter(results, 1)

\* results[:limit] taken whatever the length (limit within the length)
LimitResultsOffByOne(results, limit) ==
    IF Len(results) > limit + 1
    THEN [panic |-> limit < 0, results |-> SubSeq(results, 1, limit + 1)]
    ELSE [panic |-> FALSE, results |-> results]

\* if len(results) > limit { results = results[:limit] }: a negative limit
\* panics (slice bounds out of range)
LimitResults(results, limit) ==
    IF Len(results) > limit
    THEN (IF limit < 0 THEN [panic |-> TRUE, results |-> <<>>]
          ELSE [panic |-> FALSE, results |-> SubSeq(results, 1, limit)])
    ELSE [panic |-> FALSE, results |-> results]

\* every row ranked, a row without an embedding scored as the zero value
RankingAllRows(msgs, queryEmbedding) ==
    SortResults([i \in 1..Len(msgs) |->
        [Message |-> ScannedMessage(msgs[i]),
         Similarity |-> IF Len(msgs[i].embedding.bytes) > 0
                        THEN cosineSimilarity(queryEmbedding.elems,
                                 deserializeFloat32(msgs[i].embedding.bytes))
                        ELSE Zero64]])

\* the results of the scan loop, sorted
Ranking(msgs, queryEmbedding) == SortResults(ScoreRows(SelectEmbedded(msgs), queryEmbedding))

SearchResults(msgs, queryEmbedding, limit) ==
    LimitResults(Ranking(msgs, queryEmbedding), limit)

\* Store.Search
Search(queryEmbedding, limit) ==
    /\ call = NoCall
    /\ LET r == SearchResults(messages, queryEmbedding, limit)
       IN  call' = [op |-> "Search", query |-> queryEmbedding, limit |-> limit,
                    panic |-> r.panic, results |-> r.results]
    /\ UNCHANGED <<conversations, messages, now, pure, uiVars>>

(***************************************************************************)
(* SpecSearch: messages saved into one conversation, then searched.        *)
(***************************************************************************)
\* Bound: rows of table messages in SpecSearch
MaxSearchRows == 3

SearchEmbeddings ==
    {NilSlice, Slice(<<>>), Slice(<<FOne, FZero>>), Slice(<<FTwo, FZero>>),
     Slice(<<FZero, FOne>>), Slice(<<FNegOne, FZero>>), Slice(<<FOne>>),
     Slice(<<FNaN, FZero>>)}

SearchQueries == {Slice(<<FOne, FZero>>), Slice(<<FZero, FTwo>>), Slice(<<>>)}

InitStore ==
    /\ pure = NoPure
    /\ StoreIdle

NextSearch ==
    \/ CreateConversation(1, "t1", FALSE)
    \/ \E e \in SearchEmbeddings :
          /\ Len(messages) < MaxSearchRows
          /\ ConvExists(conversations, 1)
          /\ SaveMessage(Msg(Len(messages) + 1, 1, "user", "text", e, now), FALSE, FALSE)
    \/ \E q \in SearchQueries, limit \in (-1)..(MaxSearchRows + 1) : Search(q, limit)
    \/ Return

SpecSearch == InitStore /\ [][NextSearch]_vars

(***************************************************************************)
(* Spec: conversations and messages written through the Store.             *)
(***************************************************************************)
\* what a caller of SaveMessage passes in Spec: a user message with its
\* embedding (SpecSearch varies the embedding, SpecUI the role)
StoreMessages == {[role |-> "user", embedding |-> Slice(<<FOne, FZero>>)]}

\* the I/O outcomes of the two statements of SaveMessage
SaveOutcomes == {<<FALSE, FALSE>>, <<TRUE, FALSE>>, <<FALSE, TRUE>>}

Next ==
    \/ \E id \in ConvIds, title \in Titles, ioErr \in BOOLEAN :
          CreateConversation(id, title, ioErr)
    \/ \E id \in {1, Len(messages) + 1}, conv \in ConvIds, m \in StoreMessages,
          created \in 0..now, io \in SaveOutcomes :
          /\ Len(messages) < MaxRows
          /\ SaveMessage(Msg(id, conv, m.role, "text", m.embedding, created), io[1], io[2])
    \/ Tick
    \/ Return

Spec == InitStore /\ [][Next]_vars

(***************************************************************************)
(* Claims on Store.Search (SpecSearch)                                     *)
(***************************************************************************)
Min(x, y) == IF x < y THEN x ELSE y

\* rows of table messages whose embedding column is not NULL
EmbeddedRows == {i \in 1..Len(messages) : ~messages[i].embedding.null}

\* the row a result was read from
RowOf(result) == CHOOSE i \in 1..Len(messages) : messages[i].id = result.Message.ID

ResultIds(results) == {results[i].Message.ID : i \in 1..Len(results)}

\* the similarity of row i to the query, computed from the stored bytes
RowSimilarity(i, queryEmbedding) ==
    cosineSimilarity(queryEmbedding.elems, deserializeFloat32(messages[i].embedding.bytes))

\* similarities equal under float64 ==
Eq64(x, y) == x.k # "nan" /\ y.k # "nan" /\ x = y

\* C2: for a limit k >= 0, Search returns exactly min(k, number of messages
\* with a stored embedding) results, each a distinct stored message with its
\* similarity to the query; no later result scores higher than an earlier
\* one, and no omitted message scores higher than a returned one.
C2_SearchTopK ==
    (call.op = "Search" /\ call.limit >= 0) =>
        LET rs == call.results
        IN  /\ ~call.panic
            /\ Len(rs) = Min(call.limit, Cardinality(EmbeddedRows))
            /\ Cardinality(ResultIds(rs)) = Len(rs)
            /\ \A i \in 1..Len(rs) :
                  /\ \E r \in EmbeddedRows : messages[r].id = rs[i].Message.ID
                  /\ rs[i].Similarity = RowSimilarity(RowOf(rs[i]), call.query)
            /\ \A i \in 1..Len(rs), j \in 1..Len(rs) :
                  i < j => ~Gt64(rs[j].Similarity, rs[i].Similarity)
            /\ \A r \in EmbeddedRows, i \in 1..Len(rs) :
                  messages[r].id \notin ResultIds(rs)
                      => ~Gt64(RowSimilarity(r, call.query), rs[i].Similarity)

\* "hello" = [1,0] and "world" = [0,1] stored; Search([1,0], 1) returns only
\* "hello", with similarity 1
C2_Witness ==
    /\ call.op = "Search"
    /\ Len(messages) = 2
    /\ messages[1].embedding = Blob(serializeFloat32(<<FOne, FZero>>))
    /\ messages[2].embedding = Blob(serializeFloat32(<<FZero, FOne>>))
    /\ call.query = Slice(<<FOne, FZero>>) /\ call.limit = 1
    /\ Len(call.results) = 1
    /\ call.results[1].Message.ID = 1
    /\ call.results[1].Similarity = Fin(1, 1)

\* C7 as claimed: two results of equal similarity appear in the order in
\* which their rows were scanned, in the full ranking and in the returned
\* prefix.
StableOrder(rs) ==
    \A i \in 1..Len(rs), j \in 1..Len(rs) :
        (i < j /\ Eq64(rs[i].Similarity, rs[j].Similarity)) => RowOf(rs[i]) < RowOf(rs[j])

C7_StableTies ==
    (call.op = "Search" /\ ~call.panic) =>
        /\ StableOrder(Ranking(messages, call.query))
        /\ StableOrder(call.results)

\* C7 amended: two results of equal similarity appear in scan order whenever
\* no row scanned after the first of the two scores strictly higher than
\* they do, in the full ranking and in the returned prefix.  (A higher score
\* scanned later is swapped with the first of the two, which lands behind
\* the second: scanned 0, 0, 1 is ranked third, second, first.)
StableUnlessOvertaken(rs, queryEmbedding) ==
    \A i \in 1..Len(rs), j \in 1..Len(rs) :
        (/\ Eq64(rs[i].Similarity, rs[j].Similarity)
         /\ RowOf(rs[i]) < RowOf(rs[j])
         /\ \A r \in EmbeddedRows :
               r > RowOf(rs[i]) => ~Gt64(RowSimilarity(r, queryEmbedding), rs[i].Similarity))
        => i < j

C7_StableUnlessOvertaken ==
    (call.op = "Search" /\ ~call.panic) =>
        /\ StableUnlessOvertaken(Ranking(messages, call.query), call.query)
        /\ StableUnlessOvertaken(call.results, call.query)

\* rows scoring 0, 1, 1 in scan order: the two tied rows are returned in
\* scan order, ahead of the first row
C7_Witness ==
    /\ call.op = "Search" /\ call.limit = 2
    /\ call.query = Slice(<<FOne, FZero>>)
    /\ Len(messages) = 3
    /\ messages[1].embedding = Blob(serializeFloat32(<<FZero, FOne>>))
    /\ messages[2].embedding = Blob(serializeFloat32(<<FOne, FZero>>))
    /\ messages[3].embedding = Blob(serializeFloat32(<<FTwo, FZero>>))
    /\ Len(call.results) = 2
    /\ call.results[1].Message.ID = 2 /\ call.results[2].Message.ID = 3
    /\ Eq64(call.results[1].Similarity, call.results[2].Similarity)

\* C8: Search scores every stored message that has an embedding and only
\* those: the full ranking holds exactly the rows whose embedding is not
\* NULL, and so does the result when the limit does not cut it; a message
\* stored without an embedding is in no result.
C8_OnlyEmbedded ==
    (call.op = "Search" /\ ~call.panic) =>
        /\ ResultIds(Ranking(messages, call.query)) = {messages[r].id : r \in EmbeddedRows}
        /\ Len(Ranking(messages, call.query)) = Cardinality(EmbeddedRows)
        /\ ResultIds(call.results) \subseteq {messages[r].id : r \in EmbeddedRows}
        /\ call.limit >= Len(messages)
              => ResultIds(call.results) = {messages[r].id : r \in EmbeddedRows}

\* a search over a table holding a row without an embedding, a row with an
\* embedding of another dimension (scored 0) and a row scored 1
C8_Witness ==
    /\ call.op = "Search" /\ call.limit >= Len(messages)
    /\ Len(messages) = 3
    /\ messages[1].embedding.null
    /\ messages[2].embedding = Blob(serializeFloat32(<<FOne>>))
    /\ messages[3].embedding = Blob(serializeFloat32(<<FOne, FZero>>))
    /\ call.query = Slice(<<FOne, FZero>>)
    /\ ResultIds(call.results) = {2, 3}

\* the last successful call was SaveMessage, which appended a row
Saved == call.op = "SaveMessage" /\ ~call.err
SavedRow == messages[Len(messages)]

\* C9 as claimed: an absent embedding is stored as a marker (NULL) that a
\* stored zero-length vector differs from, and a present embedding is stored
\* as its encoding.
C9_NilDistinctFromEmpty ==
    Saved =>
        /\ SavedRow.embedding.null <=> call.msg.Embedding.isnil
        /\ ~SavedRow.embedding.null
              => SavedRow.embedding.bytes = serializeFloat32(call.msg.Embedding.elems)

\* C9 amended: an absent embedding and a zero-length one are both stored as
\* NULL; an embedding of one element or more is stored as its encoding, four
\* bytes an element, from which decoding gives the embedding back.
C9_EmptyStoredAsNull ==
    Saved =>
        /\ SavedRow.embedding.null <=> Len(call.msg.Embedding.elems) = 0
        /\ ~SavedRow.embedding.null
              => /\ Len(SavedRow.embedding.bytes) = 4 * Len(call.msg.Embedding.elems)
                 /\ deserializeFloat32(SavedRow.embedding.bytes) = call.msg.Embedding.elems
        /\ SavedRow.id = call.msg.ID

\* a zero-length, non-nil embedding was saved after a nil one: both rows NULL
C9_Witness ==
    /\ Saved
    /\ Len(messages) = 2
    /\ call.msg.Embedding = Slice(<<>>)
    /\ messages[1].embedding = NullBlob
    /\ messages[2].embedding = NullBlob

(***************************************************************************)
(* Claims on the Store's writes (Spec)                                     *)
(***************************************************************************)
\* C3 as claimed: SaveMessage for a conversation id that has no row fails
\* and leaves both tables as they were; so every stored message's
\* conversation_id is the id of a conversations row.
C3_ForeignKey ==
    /\ (call.op = "SaveMessage"
          /\ ~ConvExists(call.pre.conversations, call.msg.ConversationID))
        => /\ call.err
           /\ messages = call.pre.messages
           /\ conversations = call.pre.conversations
    /\ \A i \in 1..Len(messages) : ConvExists(conversations, messages[i].conversation_id)

\* C10: CreateConversation(id, title) fails when a row with that id exists
\* and leaves both tables unchanged; otherwise, short of an I/O error, it
\* inserts one row with that id and title whose created_at and updated_at
\* are both the current time, and changes nothing else.
C10_CreateConversation ==
    (call.op = "CreateConversation") =>
        IF ConvExists(call.pre.conversations, call.id) \/ call.ioErr
        THEN /\ call.err
             /\ conversations = call.pre.conversations
             /\ messages = call.pre.messages
        ELSE /\ ~call.err
             /\ conversations =
                  call.pre.conversations \cup {ConvRow(call.id, call.title, call.at, call.at)}
             /\ Cardinality(conversations) = Cardinality(call.pre.conversations) + 1
             /\ messages = call.pre.messages

\* a second create of an existing id, later and with another title, failed
\* without an I/O error; the conversation has a message
C10_Witness ==
    /\ call.op = "CreateConversation" /\ call.err /\ ~call.ioErr
    /\ \E c \in conversations :
          c.id = call.id /\ c.title # call.title /\ c.created_at < call.at
    /\ \E i \in 1..Len(messages) : messages[i].conversation_id = call.id

(***************************************************************************)
(* The chat UI (package tui): the Bubbletea Model, its Update handlers     *)
(* and the background commands they start.  Update runs on the display     *)
(* loop, one message at a time; every command runs in its own goroutine,   *)
(* reads the Model through the shared pointer m, and hands its result to   *)
(* the display loop when it returns.  A message text is abstracted to its  *)
(* kind, its length and the number of the prompt it belongs to.            *)
(***************************************************************************)
Content(text, len, arg) == [text |-> text, len |-> len, arg |-> arg]
NoContent == Content("", 0, 0)

\* the texts typed at the prompt: a short one and one longer than a title
Prompts == {Content("prompt", 2, 1), Content("prompt", 60, 2)}
Queries == {Content("query", 5, 0)}

ChatMessage(role, content, time) == [Role |-> role, Content |-> content, Time |-> time]

TitleMax == 50
SearchLimit == 5

\* Bound: key presses handled by the display loop
MaxKeys == 2

\* truncate(s, max): s[:max-3] + "..."
truncate(c, max) == IF c.len <= max THEN c ELSE Content("...", max, c.arg)

NewChat == Content("New Chat", 8, 0)

\* what client.Chat returns becomes the text of the streamResultMsg
ChatResults(prompt) ==
    {Content("reply", 5, prompt.arg),
     Content("Error: chat failed", 18, prompt.arg)}

\* the answers of the embedding endpoint: an error, no embedding, one
\* embedding of two elements, one embedding of no elements
EmbedResponses ==
    {[err |-> TRUE, Embeddings |-> <<>>],
     [err |-> FALSE, Embeddings |-> <<>>],
     [err |-> FALSE, Embeddings |-> << <<Fin(1, 1), Zero64>> >>],
     [err |-> FALSE, Embeddings |-> << <<>> >>]}

\* the answers met while a turn is saved
SaveEmbedResponses ==
    {[err |-> TRUE, Embeddings |-> <<>>],
     [err |-> FALSE, Embeddings |-> << <<Fin(1, 1), Zero64>> >>]}

ProviderFailed(resp) == resp.err \/ Len(resp.Embeddings) = 0

\* float32(v) of a float64 holding a small integer
ToFloat32(x) == CHOOSE f \in {FZero, FOne, FNegOne, FTwo, FThree, FFour} : ToFloat64(f) = x

\* Embed without the test for an empty answer
EmbedUnchecked(resp) ==
    IF resp.err THEN [err |-> TRUE, embedding |-> NilSlice]
    ELSE IF Len(resp.Embeddings) = 0 THEN [err |-> FALSE, embedding |-> Slice(<<>>)]
    ELSE [err |-> FALSE,
          embedding |-> Slice([i \in 1..Len(resp.Embeddings[1]) |->
                                  ToFloat32(resp.Embeddings[1][i])])]

\* Client.Embed
Embed(resp) ==
    IF resp.err THEN [err |-> TRUE, embedding |-> NilSlice]
    ELSE IF Len(resp.Embeddings) = 0 THEN [err |-> TRUE, embedding |-> NilSlice]
    ELSE [err |-> FALSE,
          embedding |-> Slice([i \in 1..Len(resp.Embeddings[1]) |->
                                  ToFloat32(resp.Embeddings[1][i])])]

\* In SpecUI the keys that start a command are pressed while no command is
\* running; ctrl+n is pressed at any time.
Idle == chats = {} /\ saves = {} /\ searches = {}

\* tui.New: an empty transcript and a fresh conversation id.  main goes on
\* without a store when NewStore fails.
InitUI ==
    /\ pure = NoPure
    /\ EmptyStore
    /\ transcript = <<>>
    /\ conversationID = 1
    /\ streaming = FALSE
    /\ memoryCount = 0
    /\ storeOpen \in BOOLEAN
    /\ chats = {} /\ saves = {} /\ searches = {}
    /\ nkeys = 0 /\ nuuid = 1 /\ ncmd = 0
    /\ proc = "running"

\* Update, "enter" with a text that is no command: sendMessage
KeyEnterPrompt(prompt) ==
    /\ ~streaming
    /\ transcript' = Append(transcript, ChatMessage("user", prompt, now))
    /\ streaming' = TRUE
    /\ chats' = chats \cup {[n |-> ncmd + 1, pc |-> "start", prompt |-> prompt,
                             conv |-> conversationID,
                             issued |-> transcript', history |-> <<>>,
                             content |-> NoContent]}
    /\ now' = now + 1
    /\ nkeys' = nkeys + 1
    /\ ncmd' = ncmd + 1
    /\ UNCHANGED <<pure, proc, conversations, messages, call, conversationID, memoryCount,
                   storeOpen, saves, searches, nuuid>>

\* the command handleCommand returns for /search and /models; it posts a
\* commandResultMsg unless it says otherwise
SlashCommand(n, cmd, query) ==
    [n |-> n, cmd |-> cmd, pc |-> "start", query |-> query,
     resp |-> [err |-> FALSE, Embeddings |-> <<>>],
     embedding |-> NilSlice, searched |-> FALSE,
     msg |-> "commandResultMsg", content |-> NoContent]

\* Update, "enter" with "/search <query>": handleCommand starts searchMemory
KeyEnterSearch(query) ==
    /\ ~streaming
    /\ searches' = searches \cup {SlashCommand(ncmd + 1, "/search", query)}
    /\ nkeys' = nkeys + 1
    /\ ncmd' = ncmd + 1
    /\ UNCHANGED <<pure, proc, conversations, messages, now, call, transcript, conversationID,
                   streaming, memoryCount, storeOpen, chats, saves, nuuid>>

\* Update, "ctrl+n": new conversation
KeyCtrlN ==
    /\ transcript' = <<>>
    /\ conversationID' = nuuid + 1
    /\ nuuid' = nuuid + 1
    /\ nkeys' = nkeys + 1
    /\ UNCHANGED <<pure, proc, conversations, messages, now, call, streaming, memoryCount,
                   storeOpen, chats, saves, searches, ncmd>>

\* the command of streamResponse: the request is built from m.messages as
\* they are when the command runs, and client.Chat returns
ChatRun(c) ==
    /\ c.pc = "start"
    /\ \E content \in ChatResults(c.prompt) :
          chats' = (chats \ {c}) \cup {[c EXCEPT !.pc = "post", !.history = transcript,
                                                !.content = content]}
    /\ UNCHANGED <<pure, proc, conversations, messages, now, call, transcript, conversationID,
                   streaming, memoryCount, storeOpen, saves, searches, nkeys, nuuid, ncmd>>

NewSave(n, turn) ==
    [n |-> n, pc |-> "start", turn |-> turn, issuedConv |-> conversationID,
     pre |-> Snapshot, first |-> TRUE, i |-> 0,
     msg |-> ChatMessage("", NoContent, 0), embedding |-> NilSlice,
     embedFailed |-> FALSE, attempts |-> <<>>,
     failed |-> FALSE, count |-> 0]

\* Update, streamResultMsg, were m.streaming left as it is
DeliverStreamResultStillStreaming(c) ==
    /\ c.pc = "post"
    /\ streaming' = streaming
    /\ transcript' = Append(transcript, ChatMessage("assistant", c.content, now))
    /\ now' = now + 1
    /\ chats' = chats \ {c}
    /\ saves' = saves \cup {NewSave(ncmd + 1, [user |-> c.prompt, assistant |-> c.content,
                                               conv |-> c.conv, cmd |-> c.n])}
    /\ ncmd' = ncmd + 1
    /\ UNCHANGED <<pure, proc, conversations, messages, call, conversationID, memoryCount,
                   storeOpen, searches, nkeys, nuuid>>

\* Update, streamResultMsg: the reply is appended and saveToMemory started
DeliverStreamResult(c) ==
    /\ c.pc = "post"
    /\ streaming' = FALSE
    /\ transcript' = Append(transcript, ChatMessage("assistant", c.content, now))
    /\ now' = now + 1
    /\ chats' = chats \ {c}
    /\ saves' = saves \cup {NewSave(ncmd + 1, [user |-> c.prompt, assistant |-> c.content,
                                               conv |-> c.conv, cmd |-> c.n])}
    /\ ncmd' = ncmd + 1
    /\ UNCHANGED <<pure, proc, conversations, messages, call, conversationID, memoryCount,
                   storeOpen, searches, nkeys, nuuid>>

(***************************************************************************)
(* saveToMemory: the command reads m.store, m.conversationID and           *)
(* m.messages when it runs, statement by statement, while the display loop *)
(* goes on handling keys.                                                  *)
(***************************************************************************)
SaveStep(s, t) == saves' = (saves \ {s}) \cup {t}

\* if m.store == nil { return nil };  conv, _ := GetConversation(m.conversationID)
SaveStart(s) ==
    /\ s.pc = "start"
    /\ IF ~storeOpen THEN saves' = saves \ {s}
       ELSE SaveStep(s, [s EXCEPT !.pc = IF ConvExists(conversations, conversationID)
                                        THEN "loop" ELSE "create"])
    /\ UNCHANGED <<pure, proc, conversations, messages, now, call, transcript, conversationID,
                   streaming, memoryCount, storeOpen, chats, searches, nkeys, nuuid, ncmd>>

\* the title of a conversation created by saveToMemory
SaveTitle(msgs) == IF Len(msgs) > 0 THEN truncate(msgs[1].Content, TitleMax) ELSE NewChat

\* if conv == nil { CreateConversation(m.conversationID, title) }, the error dropped
SaveCreate(s) ==
    /\ s.pc = "create"
    /\ LET ins == InsertConversation(conversations, conversationID,
                                     SaveTitle(transcript), now, FALSE)
       IN  /\ conversations' = ins.rows
           /\ SaveStep(s, [s EXCEPT !.pc = "loop", !.failed = s.failed \/ ins.err])
    /\ UNCHANGED <<pure, proc, messages, now, call, transcript, conversationID, streaming,
                   memoryCount, storeOpen, chats, searches, nkeys, nuuid, ncmd>>

\* the index (from 1) the loop reads next: len(m.messages) - 2 on entry
SaveIndex(s) == IF s.first THEN Len(transcript) - 1 ELSE s.i

\* embedding, _ = m.client.Embed(ctx, msg.Content): the error is dropped and
\* the save goes on with the slice Embed returned, nil on an error
SaveEmbedded(s, i, msg, e) ==
    [s EXCEPT !.pc = "save", !.first = FALSE, !.i = i, !.msg = msg,
              !.embedding = e.embedding, !.embedFailed = e.err]

\* a save that asks for an embedding whatever the role, and gets one
SaveEmbeddedAnyRole(s, i, msg) ==
    [s EXCEPT !.pc = "save", !.first = FALSE, !.i = i, !.msg = msg,
              !.embedding = Slice(<<FOne, FZero>>)]

\* var embedding []float32 stays nil for a message that is not a user message
SaveUnembedded(s, i, msg) ==
    [s EXCEPT !.pc = "save", !.first = FALSE, !.i = i, !.msg = msg,
              !.embedding = NilSlice]

\* if len(m.messages) >= 2 { for i := len(m.messages) - 2; i < len(m.messages); i++ {
\*     msg := m.messages[i];  embedding, _ = Embed(msg.Content) for a user message
SaveRead(s) ==
    /\ s.pc = "loop"
    /\ IF (s.first /\ Len(transcript) < 2) \/ SaveIndex(s) > Len(transcript)
       THEN SaveStep(s, [s EXCEPT !.pc = "count"])
       ELSE LET msg == transcript[SaveIndex(s)]
            IN  IF msg.Role = "user"
                THEN \E resp \in SaveEmbedResponses :
                        SaveStep(s, SaveEmbedded(s, SaveIndex(s), msg, Embed(resp)))
                ELSE SaveStep(s, SaveUnembedded(s, SaveIndex(s), msg))
    /\ UNCHANGED <<pure, proc, conversations, messages, now, call, transcript, conversationID,
                   streaming, memoryCount, storeOpen, chats, searches, nkeys, nuuid, ncmd>>

\* the save goes on to the next message whatever SaveMessage returned, told
\* apart only by what it has attempted
SaveContinue(s, msg, err) ==
    [s EXCEPT !.pc = "loop", !.i = s.i + 1, !.failed = s.failed \/ err,
              !.attempts = Append(s.attempts, [msg |-> msg, index |-> s.i, err |-> err])]

\* err := SaveMessage(&memory.Message{ID: uuid.New(), ConversationID: m.conversationID, ...})
SaveWrite(s) ==
    /\ s.pc = "save"
    /\ \E io \in SaveOutcomes :
          LET msg == Msg(nuuid + 1, conversationID, s.msg.Role, s.msg.Content,
                         s.embedding, s.msg.Time)
              r == SaveMessageResult(conversations, messages, msg, now, io[1], io[2])
          IN  /\ conversations' = r.conversations
              /\ messages' = r.messages
              /\ SaveStep(s, SaveContinue(s, msg, r.err))
    /\ nuuid' = nuuid + 1
    /\ UNCHANGED <<pure, proc, now, call, transcript, conversationID, streaming, memoryCount,
                   storeOpen, chats, searches, nkeys, ncmd>>

\* count, _ := GetMessageCount(ctx); return memoryCountMsg(count)
SaveCount(s) ==
    /\ s.pc = "count"
    /\ SaveStep(s, [s EXCEPT !.pc = "post", !.count = Len(messages)])
    /\ UNCHANGED <<pure, proc, conversations, messages, now, call, transcript, conversationID,
                   streaming, memoryCount, storeOpen, chats, searches, nkeys, nuuid, ncmd>>

\* Update, memoryCountMsg
DeliverMemoryCount(s) ==
    /\ s.pc = "post"
    /\ memoryCount' = s.count
    /\ saves' = saves \ {s}
    /\ UNCHANGED <<pure, proc, conversations, messages, now, call, transcript, conversationID,
                   streaming, storeOpen, chats, searches, nkeys, nuuid, ncmd>>

(***************************************************************************)
(* searchMemory                                                            *)
(***************************************************************************)
SearchStep(s, t) == searches' = (searches \ {s}) \cup {t}

\* the text searchMemory reports when Embed returned an error
EmbeddingError == Content("Error generating embedding", 26, 0)

\* the command after client.Embed returned: a commandResultMsg on an error,
\* the search otherwise
AfterEmbed(s, resp) ==
    LET e == Embed(resp)
    IN  IF e.err
        THEN [s EXCEPT !.pc = "post", !.resp = resp,
                       !.content = EmbeddingError]
        ELSE [s EXCEPT !.pc = "search", !.resp = resp, !.embedding = e.embedding]

\* if m.store == nil { return "Memory is not enabled." };  Embed(ctx, query)
SearchStart(s) ==
    /\ s.cmd = "/search"
    /\ s.pc = "start"
    /\ IF ~storeOpen
       THEN SearchStep(s, [s EXCEPT !.pc = "post",
                                    !.content = Content("Memory is not enabled.", 22, 0)])
       ELSE \E resp \in EmbedResponses : SearchStep(s, AfterEmbed(s, resp))
    /\ UNCHANGED <<pure, proc, conversations, messages, now, call, transcript, conversationID,
                   streaming, memoryCount, storeOpen, chats, saves, nkeys, nuuid, ncmd>>

\* results, err := m.store.Search(ctx, embedding, 5), and the text built from them
SearchScan(s) ==
    /\ s.pc = "search"
    /\ LET r == SearchResults(messages, s.embedding, SearchLimit)
       IN  SearchStep(s, [s EXCEPT !.pc = "post", !.searched = TRUE,
                                   !.content = IF Len(r.results) = 0
                                               THEN Content("No matching conversations found.", 32, 0)
                                               ELSE Content("Found relevant messages", 23,
                                                            Len(r.results))])
    /\ UNCHANGED <<pure, proc, conversations, messages, now, call, transcript, conversationID,
                   streaming, memoryCount, storeOpen, chats, saves, nkeys, nuuid, ncmd>>

\* Update, commandResultMsg: the text is shown as an assistant message
DeliverCommandResult(s) ==
    /\ s.pc = "post"
    /\ s.msg = "commandResultMsg"
    /\ transcript' = Append(transcript, ChatMessage("assistant", s.content, now))
    /\ now' = now + 1
    /\ searches' = searches \ {s}
    /\ UNCHANGED <<pure, proc, conversations, messages, call, conversationID, streaming,
                   memoryCount, storeOpen, chats, saves, nkeys, nuuid, ncmd>>

(***************************************************************************)
(* listModels                                                              *)
(***************************************************************************)
\* Update, "enter" with "/models": handleCommand starts listModels
KeyEnterModels ==
    /\ ~streaming
    /\ searches' = searches \cup {SlashCommand(ncmd + 1, "/models", NoContent)}
    /\ nkeys' = nkeys + 1
    /\ ncmd' = ncmd + 1
    /\ UNCHANGED <<pure, proc, conversations, messages, now, call, transcript, conversationID,
                   streaming, memoryCount, storeOpen, chats, saves, nuuid>>

\* what listModels posts: a streamResultMsg when ListModels fails, a
\* commandResultMsg with the list otherwise
ModelsResult(s, err) ==
    IF err THEN [s EXCEPT !.pc = "post", !.msg = "streamResultMsg",
                          !.content = Content("Error listing models", 20, 0)]
    ELSE [s EXCEPT !.pc = "post", !.content = Content("Available models", 16, 0)]

\* the command of listModels: client.ListModels returns
ModelsRun(s) ==
    /\ s.cmd = "/models"
    /\ s.pc = "start"
    /\ \E err \in BOOLEAN : SearchStep(s, ModelsResult(s, err))
    /\ UNCHANGED <<pure, proc, conversations, messages, now, call, transcript, conversationID,
                   streaming, memoryCount, storeOpen, chats, saves, nkeys, nuuid, ncmd>>

\* Update, streamResultMsg, posted by listModels: the text is appended as a
\* reply, the streaming flag cleared and saveToMemory started
DeliverModelsError(s) ==
    /\ s.pc = "post"
    /\ s.msg = "streamResultMsg"
    /\ streaming' = FALSE
    /\ transcript' = Append(transcript, ChatMessage("assistant", s.content, now))
    /\ now' = now + 1
    /\ searches' = searches \ {s}
    /\ saves' = saves \cup {NewSave(ncmd + 1, [user |-> NoContent, assistant |-> s.content,
                                               conv |-> conversationID, cmd |-> s.n])}
    /\ ncmd' = ncmd + 1
    /\ UNCHANGED <<pure, proc, conversations, messages, call, conversationID, memoryCount,
                   storeOpen, chats, nkeys, nuuid>>

NextUI ==
    \/ \E prompt \in Prompts : nkeys < MaxKeys /\ Idle /\ KeyEnterPrompt(prompt)
    \/ \E query \in Queries : nkeys < MaxKeys /\ Idle /\ KeyEnterSearch(query)
    \/ nkeys < MaxKeys /\ Idle /\ KeyEnterModels
    \/ nkeys < MaxKeys /\ KeyCtrlN
    \/ \E c \in chats : ChatRun(c)
    \/ \E c \in chats : DeliverStreamResult(c)
    \/ \E s \in saves : SaveStart(s)
    \/ \E s \in saves : SaveCreate(s)
    \/ \E s \in saves : SaveRead(s)
    \/ \E s \in saves : SaveWrite(s)
    \/ \E s \in saves : SaveCount(s)
    \/ \E s \in saves : DeliverMemoryCount(s)
    \/ \E s \in searches : SearchStart(s)
    \/ \E s \in searches : SearchScan(s)
    \/ \E s \in searches : DeliverCommandResult(s)
    \/ \E s \in searches : ModelsRun(s)
    \/ \E s \in searches : DeliverModelsError(s)

SpecUI == InitUI /\ [][NextUI]_vars

(***************************************************************************)
(* Claims about the commands of the display loop                           *)
(***************************************************************************)
\* a save that ran to its end without an error of the store
SaveDone(s) == storeOpen /\ s.pc = "post" /\ ~s.failed

\* the rows a finished save added
AddedConversations(s) == conversations \ s.pre.conversations
AddedMessages(s) == SubSeq(messages, Len(s.pre.messages) + 1, Len(messages))

\* C4 as claimed: when saveToMemory runs after the reply arrived, for a
\* conversation id that the store does not hold yet, the store afterwards
\* holds exactly one new conversation row, with that id, and exactly the two
\* messages of the turn under that id, the user message and then the
\* assistant message; nothing else is added.
C4_LazyCreation ==
    \A s \in saves :
        (SaveDone(s) /\ ~ConvExists(s.pre.conversations, s.issuedConv)) =>
            /\ Cardinality(AddedConversations(s)) = 1
            /\ \A c \in AddedConversations(s) : c.id = s.issuedConv
            /\ Len(AddedMessages(s)) = 2
            /\ \A i \in 1..Len(AddedMessages(s)) :
                  AddedMessages(s)[i].conversation_id = s.issuedConv
            /\ Len(AddedMessages(s)) = 2 =>
                  /\ AddedMessages(s)[1].role = "user"
                  /\ AddedMessages(s)[1].content = s.turn.user
                  /\ AddedMessages(s)[2].role = "assistant"
                  /\ AddedMessages(s)[2].content = s.turn.assistant

\* a search whose call of the embedding provider has returned
Embedded(s) == storeOpen /\ s.cmd = "/search" /\ s.pc # "start"

Orderings(n) == {p \in [1..n -> 1..n] : \A i, j \in 1..n : p[i] = p[j] => i = j}

\* rows of table messages in the order of the table, ORDER BY dropped
OrderByRowid(rows) == {rows}

\* ... ORDER BY created_at
OrderByCreatedAt(rows) ==
    {[i \in 1..Len(rows) |-> rows[p[i]]] :
        p \in {q \in Orderings(Len(rows)) :
                  \A i, j \in 1..Len(rows) :
                      i < j => rows[q[i]].created_at <= rows[q[j]].created_at}}

\* ... ORDER BY updated_at DESC, over the rows of table conversations
OrderByUpdatedAtDesc(convs) ==
    {q \in [1..Cardinality(convs) -> convs] :
        /\ \A i, j \in 1..Cardinality(convs) : q[i] = q[j] => i = j
        /\ \A i, j \in 1..Cardinality(convs) :
              i < j => q[i].updated_at >= q[j].updated_at}

\* ... LIMIT ?: SQLite puts no upper bound on the rows when the value is
\* negative
Limit(rows, limit) ==
    IF limit < 0 THEN rows ELSE SubSeq(rows, 1, Min(limit, Len(rows)))

\* SELECT ... FROM messages WHERE conversation_id = ?
WhereConversation(msgs, id) ==
    LET Test(row) == row.conversation_id = id IN SelectSeq(msgs, Test)

\* rows.Scan(&msg.ID, &msg.ConversationID, &msg.Role, &msg.Content,
\* &msg.CreatedAt): the embedding is not selected
ScannedConversationMessage(row) ==
    Msg(row.id, row.conversation_id, row.role, row.content, NilSlice, row.created_at)

\* rows.Scan of a row of table conversations; Messages stays nil
Conversation(row) ==
    [ID |-> row.id, Title |-> row.title, CreatedAt |-> row.created_at,
     UpdatedAt |-> row.updated_at, Messages |-> <<>>]

\* a *Conversation is nil or points to one Conversation
NilConversation == <<>>

\* the answers Store.GetConversation(id) can give
GetConversationResults(convs, msgs, id, ioRow, ioRows) ==
    IF ioRow THEN {[err |-> TRUE, conv |-> NilConversation]}
    ELSE IF ~ConvExists(convs, id) THEN {[err |-> FALSE, conv |-> NilConversation]}
    ELSE IF ioRows THEN {[err |-> TRUE, conv |-> NilConversation]}
    ELSE LET row == CHOOSE c \in convs : c.id = id
         IN  {[err |-> FALSE,
               conv |-> <<[Conversation(row) EXCEPT !.Messages =
                              [i \in 1..Len(rows) |-> ScannedConversationMessage(rows[i])]]>>] :
                 rows \in OrderByCreatedAt(WhereConversation(msgs, id))}

\* Store.GetConversation
GetConversation(id, ioRow, ioRows) ==
    /\ call = NoCall
    /\ \E r \in GetConversationResults(conversations, messages, id, ioRow, ioRows) :
          call' = [op |-> "GetConversation", id |-> id, err |-> r.err, conv |-> r.conv,
                   ioRow |-> ioRow, ioRows |-> ioRows, at |-> now, pre |-> Snapshot]
    /\ UNCHANGED <<conversations, messages, now, pure, uiVars>>

\* the answers Store.ListConversations(limit) can give
ListConversationsResults(convs, limit, ioErr) ==
    IF ioErr THEN {[err |-> TRUE, convs |-> <<>>]}
    ELSE {[err |-> FALSE,
           convs |-> [i \in 1..Len(Limit(q, limit)) |-> Conversation(q[i])]] :
             q \in OrderByUpdatedAtDesc(convs)}

\* Store.ListConversations
ListConversations(limit, ioErr) ==
    /\ call = NoCall
    /\ \E r \in ListConversationsResults(conversations, limit, ioErr) :
          call' = [op |-> "ListConversations", limit |-> limit, err |-> r.err,
                   convs |-> r.convs, at |-> now, pre |-> Snapshot]
    /\ UNCHANGED <<conversations, messages, now, pure, uiVars>>

\* the answers Store.GetLastConversation() can give: SELECT id ... ORDER BY
\* updated_at DESC LIMIT 1, then GetConversation(id)
GetLastConversationResults(convs, msgs, ioErr, ioRow, ioRows) ==
    IF ioErr THEN {[err |-> TRUE, conv |-> NilConversation]}
    ELSE IF convs = {} THEN {[err |-> FALSE, conv |-> NilConversation]}
    ELSE UNION {GetConversationResults(convs, msgs, q[1].id, ioRow, ioRows) :
                   q \in OrderByUpdatedAtDesc(convs)}

\* Store.GetLastConversation
GetLastConversation(ioErr, ioRow, ioRows) ==
    /\ call = NoCall
    /\ \E r \in GetLastConversationResults(conversations, messages, ioErr, ioRow, ioRows) :
          call' = [op |-> "GetLastConversation", err |-> r.err, conv |-> r.conv,
                   at |-> now, pre |-> Snapshot]
    /\ UNCHANGED <<conversations, messages, now, pure, uiVars>>

(***************************************************************************)
(* SpecRead: conversations and messages are written, then read back.       *)
(***************************************************************************)
ReadConvIds == 1..3

\* the I/O outcomes of the statements of a read
ReadOutcomes == {<<FALSE, FALSE, FALSE>>, <<TRUE, FALSE, FALSE>>,
                 <<FALSE, TRUE, FALSE>>, <<FALSE, FALSE, TRUE>>}

NextRead ==
    \/ \E id \in ReadConvIds : CreateConversation(id, "t1", FALSE)
    \/ \E conv \in ConvIds, created \in 0..now :
          /\ Len(messages) < MaxRows
          /\ SaveMessage(Msg(Len(messages) + 1, conv, "user", "text", NilSlice, created),
                         FALSE, FALSE)
    \/ \E id \in ReadConvIds, io \in ReadOutcomes : GetConversation(id, io[2], io[3])
    \/ \E limit \in -1..Cardinality(ReadConvIds), ioErr \in BOOLEAN :
          ListConversations(limit, ioErr)
    \/ \E io \in ReadOutcomes : GetLastConversation(io[1], io[2], io[3])
    \/ Tick
    \/ Return

SpecRead == InitStore /\ [][NextRead]_vars

(***************************************************************************)
(* Claims on the Store's reads (SpecRead)                                  *)
(***************************************************************************)
Got == call.op = "GetConversation" /\ ~call.ioRow /\ ~call.ioRows

\* the rows of table messages that belong to conversation id
OwnRows(id) == {i \in 1..Len(messages) : messages[i].conversation_id = id}

\* C11: GetConversation(id) returns nil and no error when no conversation
\* has the id; for a known id it returns that conversation with each of its
\* messages once, no message of another conversation, in non-decreasing
\* order of created_at, whatever CreateConversation and SaveMessage calls
\* came before.
C11_GetConversation ==
    Got =>
        /\ ~call.err
        /\ ~ConvExists(conversations, call.id) => call.conv = NilConversation
        /\ ConvExists(conversations, call.id) =>
              /\ Len(call.conv) = 1
              /\ LET c == call.conv[1]
                     n == Len(c.Messages)
                 IN  /\ c.ID = call.id
                     /\ \E row \in conversations : Conversation(row) = [c EXCEPT !.Messages = <<>>]
                     /\ n = Cardinality(OwnRows(call.id))
                     /\ {c.Messages[k].ID : k \in 1..n} =
                            {messages[i].id : i \in OwnRows(call.id)}
                     /\ \A k \in 1..n : \E i \in OwnRows(call.id) :
                            /\ messages[i].id = c.Messages[k].ID
                            /\ messages[i].role = c.Messages[k].Role
                            /\ messages[i].content = c.Messages[k].Content
                            /\ messages[i].created_at = c.Messages[k].CreatedAt
                            /\ c.Messages[k].ConversationID = call.id
                     /\ \A k \in 1..n, l \in 1..n :
                            k < l => c.Messages[k].CreatedAt <= c.Messages[l].CreatedAt

\* a known conversation read back with two messages that were stored in the
\* opposite order of their creation times
C11_Witness ==
    /\ Got /\ ConvExists(conversations, call.id)
    /\ Len(call.conv) = 1
    /\ Len(call.conv[1].Messages) = 2
    /\ \E i, j \in OwnRows(call.id) : i < j /\ messages[i].created_at > messages[j].created_at

\* an unknown id read while the table holds a message that names it
C11_WitnessAbsent ==
    /\ Got /\ ~ConvExists(conversations, call.id)
    /\ OwnRows(call.id) # {}
    /\ call.conv = NilConversation

Max(x, y) == IF x > y THEN x ELSE y

Listed == call.op = "ListConversations" /\ ~call.err

\* C12 as claimed: ListConversations(limit) returns at most limit
\* conversations for every integer limit (none when the limit is below 1),
\* and they are the most recently updated ones, in descending order of
\* updated_at.
C12_ListConversations ==
    Listed =>
        LET n == Len(call.convs)
            ids == {call.convs[k].ID : k \in 1..n}
        IN  /\ n <= Max(call.limit, 0)
            /\ n = Min(Max(call.limit, 0), Cardinality(conversations))
            /\ Cardinality(ids) = n
            /\ \A k \in 1..n : \E row \in conversations : Conversation(row) = call.convs[k]
            /\ \A k \in 1..n, l \in 1..n :
                  k < l => call.convs[k].UpdatedAt >= call.convs[l].UpdatedAt
            /\ \A row \in conversations : row.id \notin ids =>
                  \A k \in 1..n : row.updated_at <= call.convs[k].UpdatedAt

\* the message of the call is a message of a conversation the store held
SavedToExisting == Saved /\ ConvExists(call.pre.conversations, call.msg.ConversationID)

\* the frame of a successful SaveMessage: one row more in messages, the
\* conversation of the message stamped with the time of the call, all else
\* as before
SaveMessageFrame ==
    /\ messages = Append(call.pre.messages, MessageRow(call.msg))
    /\ conversations =
          {IF c.id = call.msg.ConversationID THEN [c EXCEPT !.updated_at = call.at] ELSE c :
              c \in call.pre.conversations}

\* every answer GetLastConversation can give now is the conversation id
LastConversationIs(id) ==
    \A r \in GetLastConversationResults(conversations, messages, FALSE, FALSE, FALSE) :
        ~r.err /\ Len(r.conv) = 1 /\ r.conv[1].ID = id

\* C13 as claimed: a successful SaveMessage for a message of an existing
\* conversation adds that one row, stamps the conversation with the current
\* time so that GetLastConversation returns it, and leaves the other
\* conversations and the stored messages unchanged.
C13_SaveMessageThenLast ==
    SavedToExisting => (SaveMessageFrame /\ LastConversationIs(call.msg.ConversationID))

\* every other conversation was last updated before the time of the call
StrictlyNewest ==
    \A c \in conversations : c.id # call.msg.ConversationID => c.updated_at < call.at

\* C13 amended: the frame holds, and GetLastConversation returns the
\* conversation whenever every other conversation carries a strictly
\* earlier updated_at than the one just written.
C13_SaveMessageFrame ==
    SavedToExisting =>
        /\ SaveMessageFrame
        /\ StrictlyNewest => LastConversationIs(call.msg.ConversationID)

\* a message saved after another one, at a later time than the last update
\* of two conversations, into the one that was created first
C13_Witness ==
    /\ SavedToExisting /\ StrictlyNewest
    /\ call.pre.messages # <<>>
    /\ \E c \in call.pre.conversations, d \in call.pre.conversations :
          /\ c.id = call.msg.ConversationID /\ d.id # c.id
          /\ c.updated_at <= d.updated_at

(***************************************************************************)
(* Claims about saveToMemory (SpecUI)                                      *)
(***************************************************************************)
\* the row SaveMessage stored for an attempt of a save
StoredRows(a) == {i \in 1..Len(messages) : messages[i].id = a.msg.ID}

\* no ctrl+n since the save was started
SameConversation(s) == conversationID = s.issuedConv

\* the save was started by the reply of a chat request, and no ctrl+n was
\* handled since
UndisturbedTurn(s) == SameConversation(s) /\ s.turn.user # NoContent

\* the save is through with the messages of the turn
SaveLoopDone(s) == s.pc \in {"count", "post"}

\* what C14 says of a save whose Embed failed: SaveMessage is still called
\* for the user message, with no embedding, so that its row holds NULL, and,
\* once the loop is over, the assistant message was attempted after it, its
\* row following the user's
EmbedFailureKeepsTurn(s) ==
    /\ s.pc # "save" =>
          /\ Len(s.attempts) >= 1
          /\ s.attempts[1].msg.Role = "user"
          /\ s.attempts[1].msg.Embedding = NilSlice
          /\ ~s.attempts[1].err =>
                \E i \in StoredRows(s.attempts[1]) :
                    messages[i].role = "user" /\ messages[i].embedding = NullBlob
    /\ SaveLoopDone(s) =>
          /\ Len(s.attempts) = 2
          /\ s.attempts[2].msg.Role = "assistant"
          /\ s.attempts[2].msg.Content = s.turn.assistant
          /\ (~s.attempts[1].err /\ ~s.attempts[2].err) =>
                \E i \in StoredRows(s.attempts[1]), j \in StoredRows(s.attempts[2]) : i < j

\* C14 as claimed: when Embed fails for the user message of a turn, the turn
\* is never given up: the user message is still saved, without an
\* embedding, and the assistant message is still saved after it.
C14_EmbedFailureKeepsTurn ==
    \A s \in saves : s.embedFailed => EmbedFailureKeepsTurn(s)

\* the same of the saves of a turn during which no ctrl+n was handled
EmbedFailureKeepsUndisturbedTurn ==
    \A s \in saves : (s.embedFailed /\ UndisturbedTurn(s)) => EmbedFailureKeepsTurn(s)

\* a finished save whose Embed failed and whose two messages are stored
EmbedFailureWitness ==
    \E s \in saves :
        /\ s.embedFailed /\ s.pc = "post" /\ SameConversation(s)
        /\ Len(s.attempts) = 2
        /\ ~s.attempts[1].err /\ ~s.attempts[2].err
        /\ \E i \in StoredRows(s.attempts[1]), j \in StoredRows(s.attempts[2]) :
              i < j /\ messages[i].embedding = NullBlob /\ messages[i].content = s.turn.user

\* what C15 says of a save: a failed save of the first message is followed
\* by the attempt of the second, the row of a successful save stays in the
\* table whatever fails later, and no message of the transcript is attempted
\* twice
IndependentSaves(s) ==
    /\ (SaveLoopDone(s) /\ Len(s.attempts) >= 1 /\ s.attempts[1].err) =>
          /\ Len(s.attempts) = 2
          /\ s.attempts[1].msg.Role = "user"
          /\ s.attempts[2].msg.Role = "assistant"
    /\ \A k \in 1..Len(s.attempts) :
          ~s.attempts[k].err => StoredRows(s.attempts[k]) # {}
    /\ \A k, l \in 1..Len(s.attempts) :
          k # l => s.attempts[k].index # s.attempts[l].index

\* C15 as claimed: within one recorded turn the two saves are independent:
\* a failed save of the user message does not keep the assistant message
\* from being attempted, a failed save of the assistant message does not
\* remove the saved user message, and each message is attempted at most
\* once.
C15_IndependentSaves ==
    \A s \in saves : IndependentSaves(s)

\* the same of the saves of a turn during which no ctrl+n was handled
IndependentUndisturbedSaves ==
    \A s \in saves : UndisturbedTurn(s) => IndependentSaves(s)

\* a finished save whose first SaveMessage failed and whose second stored
\* its row, and one whose second failed after the first stored its row
IndependentSavesWitness ==
    \E s \in saves :
        /\ s.pc = "post" /\ SameConversation(s) /\ Len(s.attempts) = 2
        /\ s.attempts[1].err /\ ~s.attempts[2].err
        /\ StoredRows(s.attempts[1]) = {} /\ StoredRows(s.attempts[2]) # {}

(***************************************************************************)
(* Claims on cosineSimilarity (SpecCosine), continued                      *)
(***************************************************************************)
\* a call of cosineSimilarity on two vectors of the same length has returned
CosineDone == pure.fn = "cosine" /\ pure.pc = "done" /\ Len(pure.a) = Len(pure.b)

\* what the call with the arguments exchanged returns
Reversed == cosineSimilarity(pure.b, pure.a)

\* C16 as claimed: for all vectors a and b of equal length,
\* cosineSimilarity(a, b) == cosineSimilarity(b, a), with the == of float64.
C16_Symmetric == CosineDone => Eq64(pure.ret, Reversed)

\* C16 amended: the two calls return equal values or both return NaN, and
\* NaN only when an element of a or b is NaN or infinite.
C16_SymmetricOrNaN ==
    CosineDone =>
        /\ Eq64(pure.ret, Reversed) \/ (pure.ret = NaN64 /\ Reversed = NaN64)
        /\ (AllFinite(pure.a) /\ AllFinite(pure.b)) => Eq64(pure.ret, Reversed)

\* a call on two different vectors of finite elements that are neither
\* parallel nor orthogonal
C16_Witness ==
    /\ CosineDone /\ pure.a # pure.b
    /\ AllFinite(pure.a) /\ AllFinite(pure.b)
    /\ pure.ret.k = "fin" /\ pure.ret.n # 0 /\ pure.ret.d # 1
    /\ Eq64(pure.ret, Reversed)

\* every row of table messages that holds an embedding is a user message
EmbeddedRowsAreUser ==
    \A i \in 1..Len(messages) : HasEmbedding(messages[i]) => messages[i].role = "user"

\* a step that adds a row with an embedding is the SaveMessage of a save
\* that read a user message of that content and got its embedding from Embed
\* without an error
EmbeddedRowWasGenerated ==
    (Len(messages') = Len(messages) + 1 /\ HasEmbedding(messages'[Len(messages')])) =>
        \E s \in saves :
            /\ s.pc = "save" /\ ~s.embedFailed
            /\ s.msg.Role = "user"
            /\ s.msg.Content = messages'[Len(messages')].content
            /\ EmbeddingBlob(s.embedding) = messages'[Len(messages')].embedding

\* C17: in every state reachable through the chat UI a stored message holds
\* an embedding only if its role is user and Embed succeeded for its
\* content; assistant and system messages are never stored with one.
C17_EmbeddingOnlyOnUser ==
    [](EmbeddedRowsAreUser) /\ [][EmbeddedRowWasGenerated]_vars

\* a turn stored as a user message with its embedding and an assistant
\* message without one
C17_Witness ==
    \E i, j \in 1..Len(messages) :
        /\ i < j
        /\ messages[i].role = "user" /\ HasEmbedding(messages[i])
        /\ messages[j].role = "assistant" /\ ~HasEmbedding(messages[j])

\* the rows of table conversations that no stored message names
EmptyConversations ==
    {c \in conversations : \A i \in 1..Len(messages) : messages[i].conversation_id # c.id}

\* C18 as claimed: a conversation row is created at most once per
\* conversation id and only with the first saved message of a turn: none at
\* the start, none on ctrl+n, and once the commands have run no row of table
\* conversations is without a saved message.
C18_LazyOnce ==
    /\ \A c, d \in conversations : c.id = d.id => c = d
    /\ (nkeys = 0 /\ Idle) => conversations = {}
    /\ Idle => EmptyConversations = {}

(***************************************************************************)
(* SpecChat: the keys and the commands that touch the streaming flag, with *)
(* memory disabled; a key is pressed at any time.                          *)
(***************************************************************************)
\* Bound: key presses handled by the display loop in SpecChat
MaxChatKeys == 3

InitChat == InitUI /\ ~storeOpen

NextChat ==
    \/ \E prompt \in Prompts : nkeys < MaxChatKeys /\ KeyEnterPrompt(prompt)
    \/ nkeys < MaxChatKeys /\ KeyEnterModels
    \/ nkeys < MaxChatKeys /\ KeyCtrlN
    \/ \E c \in chats : ChatRun(c)
    \/ \E c \in chats : DeliverStreamResult(c)
    \/ \E s \in searches : ModelsRun(s)
    \/ \E s \in searches : DeliverModelsError(s)
    \/ \E s \in searches : DeliverCommandResult(s)
    \/ \E s \in saves : SaveStart(s)

SpecChat == InitChat /\ [][NextChat]_vars

\* C19 as claimed: at any time at most one chat request is in flight: a
\* second one is never started while an earlier one has not delivered its
\* result, whatever the order of keys, slash commands and results.
C19_SingleChat == Cardinality(chats) <= 1

\* the chat request was built from the transcript as it was when the command
\* was issued
ChatUsesIssuedTranscript(c) == c.pc = "post" => c.history = c.issued

\* the save works under the conversation id of the time it was issued, and
\* on the messages of the turn it was issued for
SaveUsesIssuedState(s) ==
    \A k \in 1..Len(s.attempts) :
        /\ s.attempts[k].msg.ConversationID = s.issuedConv
        /\ s.attempts[k].msg.Content \in {s.turn.user, s.turn.assistant}

\* C20 as claimed: the background commands never read state that the
\* display loop mutates: the transcript a chat request uses and the
\* conversation id and messages a save uses are those of the time the
\* command was issued, whatever the display loop does afterwards.
C20_MessagePassingOnly ==
    /\ \A c \in chats : ChatUsesIssuedTranscript(c)
    /\ \A s \in saves : SaveUsesIssuedState(s)

(***************************************************************************)
(* SpecQuit: a chat with memory enabled that the user may quit at any      *)
(* time.  The display loop handles messages while p.Run() runs; a command  *)
(* is a goroutine that goes on until the process ends.                     *)
(***************************************************************************)
\* Update, "ctrl+c": return m, tea.Quit.  p.Run() returns; it does not wait
\* for the commands it started.
KeyCtrlC ==
    /\ proc = "running"
    /\ proc' = "quitting"
    /\ nkeys' = nkeys + 1
    /\ UNCHANGED <<pure, conversations, messages, now, call, transcript, conversationID,
                   streaming, memoryCount, storeOpen, chats, saves, searches, nuuid, ncmd>>

\* main after p.Run() returned: cfg.Save(), the deferred store.Close(), and
\* the process ends, the goroutines of the commands with it.  A statement a
\* command runs between Close and the end fails and writes nothing, so the
\* two are one step here.
MainReturns ==
    /\ proc = "quitting"
    /\ proc' = "exited"
    /\ UNCHANGED <<pure, conversations, messages, now, call, transcript, conversationID,
                   streaming, memoryCount, storeOpen, chats, saves, searches, nkeys,
                   nuuid, ncmd>>

\* the display loop is handling messages
Running == proc = "running"

\* the goroutines of the process are scheduled
Alive == proc # "exited"

InitQuit == InitUI /\ storeOpen

NextQuit ==
    \/ \E prompt \in Prompts : Running /\ nkeys < MaxKeys /\ Idle /\ KeyEnterPrompt(prompt)
    \/ KeyCtrlC
    \/ MainReturns
    \/ \E c \in chats : Alive /\ ChatRun(c)
    \/ \E c \in chats : Running /\ DeliverStreamResult(c)
    \/ \E s \in saves : Alive /\ SaveStart(s)
    \/ \E s \in saves : Alive /\ SaveCreate(s)
    \/ \E s \in saves : Alive /\ SaveRead(s)
    \/ \E s \in saves : Alive /\ SaveWrite(s)
    \/ \E s \in saves : Alive /\ SaveCount(s)
    \/ \E s \in saves : Running /\ DeliverMemoryCount(s)

SpecQuit == InitQuit /\ [][NextQuit]_vars

\* the command of the save has run its first statements
SaveStarted(s) == s.pc # "start"

\* the save has called SaveMessage for both messages of its turn
BothAttempted(s) ==
    /\ Len(s.attempts) = 2
    /\ s.attempts[1].msg.Content = s.turn.user
    /\ s.attempts[2].msg.Content = s.turn.assistant

\* C21 as claimed: a turn save that has started is never cut short: when
\* the process has ended, also after ctrl+c, every save that had started
\* has attempted both messages of its turn.
C21_SaveRunsToCompletion ==
    proc = "exited" => \A s \in saves : SaveStarted(s) => BothAttempted(s)

\* a save that ran to its end before the user quit
SaveCompletedBeforeExit ==
    /\ proc = "exited"
    /\ \E s \in saves : s.pc = "post" /\ BothAttempted(s)

(***************************************************************************)
(* Claims on what a save persists (SpecUI)                                 *)
(***************************************************************************)
\* two rows hold the same on-screen message: a ChatMessage is told apart by
\* its role, its text and the time it was appended at
SameOnScreen(a, b) ==
    /\ a.role = b.role
    /\ a.content = b.content
    /\ a.created_at = b.created_at

\* no on-screen message is stored in two rows
WrittenOnce ==
    \A i, j \in 1..Len(messages) : SameOnScreen(messages[i], messages[j]) => i = j

\* what the save has written so far is the prompt of its turn, then the
\* reply to it
SavesPromptThenReply(s) ==
    /\ Len(s.attempts) <= 2
    /\ \A k \in 1..Len(s.attempts) :
          IF k = 1
          THEN s.attempts[k].msg.Role = "user" /\ s.attempts[k].msg.Content = s.turn.user
          ELSE /\ s.attempts[k].msg.Role = "assistant"
               /\ s.attempts[k].msg.Content = s.turn.assistant

\* C22 as claimed: whatever the keys, commands and results, every on-screen
\* message is written to the store at most once, and each save writes one
\* user prompt followed by the reply to it: command output and earlier
\* replies are never persisted by a later save.
C22_PersistedOnce ==
    /\ WrittenOnce
    /\ \A s \in saves : SavesPromptThenReply(s)

(***************************************************************************)
(* Claims on the conversation a turn is saved under (SpecUI)               *)
(***************************************************************************)
\* the save of a chat turn: a prompt was sent for it
ChatTurn(s) == s.turn.user # NoContent

\* every message the save has written carries the conversation id that was
\* current when the prompt was sent
StoredUnderSendingId(s) ==
    \A k \in 1..Len(s.attempts) : s.attempts[k].msg.ConversationID = s.turn.conv

\* the only conversation row that has appeared since the save was started is
\* that of the sending-time id (one save runs at a time in SpecUI, and only
\* a save creates conversations)
CreatedOnlySendingId(s) ==
    \A c \in conversations :
        ~ConvExists(s.pre.conversations, c.id) => c.id = s.turn.conv

\* C23 as claimed: the messages of a turn are saved under the conversation
\* id that was current when the prompt was sent: a new conversation started
\* while the reply is pending or the save is in flight gets none of the
\* turn's messages and no conversation row from that save.
C23_SavedUnderSendingId ==
    \A s \in saves : ChatTurn(s) => StoredUnderSendingId(s) /\ CreatedOnlySendingId(s)

\* the same with no ctrl+n handled between the prompt and the save's step
TurnUndisturbed(s) == s.turn.conv = conversationID

SavedUnderSendingIdUndisturbed ==
    \A s \in saves :
        (ChatTurn(s) /\ TurnUndisturbed(s)) =>
            StoredUnderSendingId(s) /\ CreatedOnlySendingId(s)

(***************************************************************************)
(* Claims on the outcome SaveMessage reports (Spec)                        *)
(***************************************************************************)
\* the call that just returned is a SaveMessage that reported an error
SaveMessageFailed == call.op = "SaveMessage" /\ call.err

\* C24 as claimed: SaveMessage is all-or-nothing with respect to what it
\* reports: whenever it returns an error the message row was not inserted
\* and the store is as it was before the call, also when it is the update
\* of the conversation's timestamp that failed.
C24_AllOrNothing ==
    SaveMessageFailed =>
        /\ messages = call.pre.messages
        /\ conversations = call.pre.conversations

\* the same for a failure of the INSERT itself
InsertFailureLeavesStore ==
    (SaveMessageFailed /\ call.ioInsert) =>
        /\ messages = call.pre.messages
        /\ conversations = call.pre.conversations

(***************************************************************************)
(* LiveChat: the keys and commands of SpecChat with the scheduling the     *)
(* code relies on: the goroutine of a chat command runs until client.Chat  *)
(* returns (its context ends after two minutes at the latest), and the     *)
(* display loop handles every message posted to it while p.Run() runs.     *)
(***************************************************************************)
\* Bound: key presses handled by the display loop in LiveChat
MaxLiveKeys == 2

\* the numbers of the commands LiveChat starts: a key starts at most one
\* command, and a result at most one save
ChatCmds == 1..(2 * MaxLiveKeys)

NextLive ==
    \/ \E prompt \in Prompts : nkeys < MaxLiveKeys /\ KeyEnterPrompt(prompt)
    \/ nkeys < MaxLiveKeys /\ KeyEnterModels
    \/ nkeys < MaxLiveKeys /\ KeyCtrlN
    \/ \E c \in chats : ChatRun(c)
    \/ \E c \in chats : DeliverStreamResult(c)
    \/ \E s \in searches : ModelsRun(s)
    \/ \E s \in searches : DeliverModelsError(s)
    \/ \E s \in searches : DeliverCommandResult(s)
    \/ \E s \in saves : SaveStart(s)

\* a chat command that can take its step is not left waiting for ever (in
\* a run of finitely many commands this is fair to each of them), and a
\* posted result is handled
ChatFairness ==
    /\ WF_vars(\E c \in chats : ChatRun(c))
    /\ WF_vars(\E c \in chats : DeliverStreamResult(c))

LiveChat == InitChat /\ [][NextLive]_vars /\ ChatFairness

\* the prompt of command n was sent and its result is not yet handled
Pending(n) == \E c \in chats : c.n = n

\* the display loop has just handled the streamResultMsg of command n: the
\* reply is the last message on screen, saveToMemory was started for the
\* turn, and "enter" is accepted
ResultHandled(n) ==
    /\ ~streaming
    /\ \E s \in saves :
          /\ s.pc = "start"
          /\ s.turn.cmd = n
          /\ s.turn.user # NoContent
          /\ Len(transcript) > 0
          /\ transcript[Len(transcript)].Role = "assistant"
          /\ transcript[Len(transcript)].Content = s.turn.assistant
          /\ s.turn.assistant \in ChatResults(s.turn.user)

\* a chat command leaves the set of running commands only as its result is
\* handled, and then one assistant message, its reply, is appended
OneReplyAppended ==
    \A c \in chats :
        (\A d \in chats' : d.n # c.n) =>
            /\ c.pc = "post"
            /\ transcript' = Append(transcript, ChatMessage("assistant", c.content, now))
            /\ ~streaming'

\* C25: every submitted prompt gets its result: once sendMessage has set
\* streaming and started the chat command, the command returns, its
\* streamResultMsg is handled, streaming is false again and "enter" is
\* accepted, and exactly one assistant message, the reply, is appended for
\* the prompt.
C25_PromptGetsResult ==
    /\ \A n \in ChatCmds : Pending(n) ~> ResultHandled(n)
    /\ [][OneReplyAppended]_vars

\* a prompt whose result was handled while the error of /models had cleared
\* the streaming flag before
C25_Witness ==
    /\ \E n \in ChatCmds : ResultHandled(n)
    /\ \E k \in 1..Len(transcript) :
          transcript[k].Content = Content("Error listing models", 20, 0)

====
